---- MODULE Spec2Model ----
(***************************************************************************)
(* The refresh coordination and request-queueing engine of                 *)
(* src/src/utils/request.js: the response-error interceptor, the           *)
(* QueueManager, the refresh-attempt counter and the request pipeline.     *)
(*                                                                         *)
(* A step of the model is what the JavaScript event loop runs without      *)
(* interruption: a task and the promise continuations it queues.  A        *)
(* handler is suspended, and other steps interleave, only where the code   *)
(* awaits real I/O: a request at the transport, the refresh call, and the  *)
(* read of a Blob error body in parseBlobError.  The drain loop of         *)
(* resolveAll is one step per iteration; while it runs and is not          *)
(* suspended on a replay at the transport no other step is taken (Busy).   *)
(*                                                                         *)
(* A request the pipeline refuses (OfflineError, IsRefreshingTokenError)   *)
(* reaches the rejected handler, and enqueue, through promise              *)
(* continuations only, so the push is in the step of the call.  The        *)
(* rejections of a drain, clear() and the finally of the owner are         *)
(* likewise one train of continuations: a caller learns of its rejection   *)
(* only after isRefreshing is false again.                                 *)
(*                                                                         *)
(* Spec is the coordinator; FairSpec adds the fairness of the transport    *)
(* and the event loop; PreSpec follows one request descriptor through      *)
(* preprocessRequest.                                                      *)
(***************************************************************************)
EXTENDS Integers, Sequences, FiniteSets, TLC

\* ---------------------------------------------------------------- bounds
NReq == 2          \* caller slots: requests that can be outstanding at once
MaxIssue == 6      \* requests the application issues in one behaviour
NTok == 2          \* distinct credential values the server hands out
TickStep == 60000  \* the clock advances in steps of this many ms
MaxTime == 60000   \* the clock stops here
MaxRuns == 3       \* passes of one descriptor through the routing stage

\* ------------------------------------------------------ program constants
MAX_REFRESH_ATTEMPTS == 5
RESET_INTERVAL == 60 * 1000
knownErrorMessage == {401, 408, 429, 500, 504}

Reqs == 1..NReq
Tokens == 1..NTok
\* statuses the transport answers a failed request with: Unauthorized, one
\* status of the known-status table, one status outside it
Statuses == {401, 500, 404}

VARIABLES
  isRefreshing,     \* request.js:99
  isLogout,         \* request.js:100
  refreshAttempts,  \* request.js:101
  lastResetTime,    \* request.js:102
  queue,            \* failedQueue.queue: the caller slot of each entry, in push order
  cookies,          \* credential store: access token, refresh token, login flag
  online,           \* navigator.onLine
  now,              \* Date.now()
  pc,               \* per caller slot: position of its request
  err,              \* per caller slot: the failure a suspended handler holds
  hdr,              \* x-access-token header of the replay the drain last dispatched
  settled,          \* the callers' promises the last step settled, and how
  refreshers,       \* handlers awaiting the answer of their refresh call
  drainer,          \* the handler whose resolveAll is running (0: none)
  drainPos,         \* index of the for-of iterator of resolveAll
  issued,           \* number of requests issued so far
  replayLog,        \* entries for which the running/last drain called instance(retryConfig)
  issuedTok,        \* the credential the last successful refresh call returned
  event,            \* what the last step did
  hist,             \* bookkeeping on the first burst of Unauthorized failures
  shown,            \* messages the last step showed with ElMessage.error
  config,           \* the request descriptor followed through preprocessRequest
  config0,          \* that descriptor as the call site built it
  runs              \* passes of the descriptor through preprocessRequest

coordVars == <<isRefreshing, isLogout, refreshAttempts, lastResetTime, queue, cookies,
               online, now, pc, err, hdr, settled, refreshers, drainer, drainPos,
               issued, replayLog, issuedTok, event, hist, shown>>

descVars == <<config, config0, runs>>

vars == <<coordVars, descVars>>

\* The state as one record, so that the functions of the source compose.
St ==
  [isRefreshing |-> isRefreshing, isLogout |-> isLogout,
   refreshAttempts |-> refreshAttempts, lastResetTime |-> lastResetTime,
   queue |-> queue, cookies |-> cookies, online |-> online, now |-> now,
   pc |-> pc, err |-> err, hdr |-> hdr, settled |-> settled,
   refreshers |-> refreshers, drainer |-> drainer, drainPos |-> drainPos,
   issued |-> issued, replayLog |-> replayLog,
   issuedTok |-> issuedTok, event |-> event, hist |-> hist, shown |-> shown]

Becomes(s) ==
  /\ isRefreshing' = s.isRefreshing
  /\ isLogout' = s.isLogout
  /\ refreshAttempts' = s.refreshAttempts
  /\ lastResetTime' = s.lastResetTime
  /\ queue' = s.queue
  /\ cookies' = s.cookies
  /\ online' = s.online
  /\ now' = s.now
  /\ pc' = s.pc
  /\ err' = s.err
  /\ hdr' = s.hdr
  /\ settled' = s.settled
  /\ refreshers' = s.refreshers
  /\ drainer' = s.drainer
  /\ drainPos' = s.drainPos
  /\ issued' = s.issued
  /\ replayLog' = s.replayLog
  /\ issuedTok' = s.issuedTok
  /\ event' = s.event
  /\ hist' = s.hist
  /\ shown' = s.shown
  /\ UNCHANGED descVars

NoCookies == [access |-> 0, refresh |-> 0, login |-> FALSE]
NoErr == [flag |-> "none", status |-> 0, retry |-> FALSE, handled |-> FALSE]
NoSettle == [who |-> {}, how |-> "none"]
NoHist == [phase |-> "none", burst |-> {}, left |-> {}, late |-> FALSE, calls |-> 0]
ClosedHist == [NoHist EXCEPT !.phase = "closed"]

\* The errors the request pipeline throws (request.js:68-84), born handled
\* (request.js:63), and the failure the transport answers with.
OfflineError(retry) ==
  [flag |-> "Offline", status |-> 0, retry |-> retry, handled |-> TRUE]
IsRefreshingTokenError(retry) ==
  [flag |-> "IsRefreshing", status |-> 0, retry |-> retry, handled |-> TRUE]
HttpError(status, retry) ==
  [flag |-> "none", status |-> status, retry |-> retry, handled |-> FALSE]
\* The error axios.request rejects the refresh call with (request.js:339-344).
RefreshError == HttpError(0, FALSE)

\* What a caller sees of a rejection with error e.
ResultOf(e) ==
  IF e.flag # "none" THEN e.flag
  ELSE IF e.status = 401 THEN "Status401"
  ELSE IF e.status = 500 THEN "Status500"
  ELSE "Status404"

\* ------------------------------------------------------ request descriptors
\* A body or a set of query parameters: undefined, or an object given by its
\* keys (the value of a key never changes).
Undefined == [def |-> FALSE, keys |-> {}]
Object(ks) == [def |-> TRUE, keys |-> ks]
Keys == {"a", "id"}
Objects == {Undefined} \cup {Object(ks) : ks \in SUBSET Keys}
Methods == {"get", "GET", "head", "post", "POST", "put", "patch", "delete"}

\* The descriptors a call site hands to the instance (src/api/testApi.js); url
\* is the set of {name} placeholders of the URL.
Configs ==
  [method : Methods, data : Objects, params : Objects, url : SUBSET {"id"},
   removeUrlParams : BOOLEAN, isPreprocessing : {FALSE}, internalRetry : {FALSE}]

\* No descriptor is followed.
NoConfig ==
  [method |-> "get", data |-> Undefined, params |-> Undefined, url |-> {},
   removeUrlParams |-> TRUE, isPreprocessing |-> FALSE, internalRetry |-> FALSE]

Init ==
  /\ config = NoConfig
  /\ config0 = NoConfig
  /\ runs = 0
  /\ isRefreshing = FALSE
  /\ isLogout = FALSE
  /\ refreshAttempts = 0
  /\ lastResetTime = 0
  /\ queue = <<>>
  /\ cookies = [access |-> 1, refresh |-> 1, login |-> TRUE]
  /\ online = TRUE
  /\ now = 0
  /\ pc = [r \in Reqs |-> "idle"]
  /\ err = [r \in Reqs |-> NoErr]
  /\ hdr = 0
  /\ settled = NoSettle
  /\ refreshers = {}
  /\ drainer = 0
  /\ drainPos = 0
  /\ issued = 0
  /\ replayLog = <<>>
  /\ issuedTok = 0
  /\ event = "init"
  /\ hist = NoHist
  /\ shown = 0

\* The state a step starts from: nothing settled or shown yet by this step,
\* and the bookkeeping of a burst that is over put away.
Cur ==
  [St EXCEPT !.settled = NoSettle,
             !.shown = 0,
             !.hist = IF @.phase = "complete" THEN ClosedHist ELSE @]

\* ------------------------------------------------------------ QueueManager
\* enqueue (request.js:15-20): push the entry, hand back a pending promise.
enqueue(s, r) ==
  [s EXCEPT !.queue = Append(@, r), !.pc[r] = "queued"]

\* task.reject / Promise.reject: the caller's promise is rejected.
reject(s, r, kind) ==
  [s EXCEPT !.pc[r] = "idle", !.settled = [who |-> {r}, how |-> kind]]

\* task.resolve / the response handed to the caller.
resolve(s, r) ==
  [s EXCEPT !.pc[r] = "idle", !.settled = [who |-> {r}, how |-> "resolved"]]

\* clear that leaves the entries in the queue.
clear_Keep(s) == s

\* clear (request.js:52-54)
clear(s) == [s EXCEPT !.queue = <<>>]

Entries(s) == {s.queue[i] : i \in 1..Len(s.queue)}

\* rejectAll that only empties the queue: the entries stay pending.
rejectAll_OnlyClear(s, kind) == clear(s)

\* rejectAll (request.js:47-50)
rejectAll(s, kind) ==
  clear([s EXCEPT
    !.pc = [q \in Reqs |-> IF q \in Entries(s) THEN "idle" ELSE @[q]],
    !.settled = [who |-> Entries(s), how |-> kind]])

\* --------------------------------------------------------------- utilities
\* errorHandler with silent set: the error is marked, nothing is shown.
errorHandler_Silent(s, e) == s

\* errorHandler (request.js:417-430): a message is shown unless the error is
\* already marked handled
errorHandler(s, e) ==
  IF e.handled THEN s ELSE [s EXCEPT !.shown = @ + 1]

\* resetAuth (request.js:317-327)
resetAuth(s, e) ==
  errorHandler([s EXCEPT !.cookies = NoCookies, !.isLogout = TRUE], e)

\* handleKnownHttpErrors (request.js:390-396)
handleKnownHttpErrors(s, e) ==
  IF e.status \in knownErrorMessage THEN errorHandler(s, e) ELSE s

\* request.js:401
WindowElapsed(s) == s.now - s.lastResetTime >= RESET_INTERVAL

\* checkAndResetCounter (request.js:399-408)
checkAndResetCounter(s) ==
  IF WindowElapsed(s)
  THEN [s EXCEPT !.refreshAttempts = 0, !.lastResetTime = s.now]
  ELSE s

\* The ceiling test written with >= : the attempt that reaches the ceiling
\* already counts as over it.
LimitExceeded_AtCeiling(n) == n >= MAX_REFRESH_ATTEMPTS

\* request.js:173
LimitExceeded(n) == n > MAX_REFRESH_ATTEMPTS

\* The guard left out: every Unauthorized failure starts a refresh.
MayStartRefresh_Always(s) == TRUE

\* The guard never passes: an Unauthorized failure is queued and no refresh starts.
MayStartRefresh_Never(s) == FALSE

\* request.js:182: the test that guards isRefreshing = true
MayStartRefresh(s) == ~s.isRefreshing

\* The retry test left out: a failed replay is handled like a first failure.
IsInternalRetry_Never(e) == FALSE

\* request.js:158
IsInternalRetry(e) == e.retry

\* ---------------------------------------------------------- request pipeline
\* The connectivity check left out.
checkNetwork_Never(s) == FALSE

\* checkNetwork (request.js:232-235): TRUE when it throws
checkNetwork(s) == ~s.online

\* checkIsRefreshing (request.js:226-229): TRUE when it throws
checkIsRefreshing(s, retry) == s.isRefreshing

\* The stage at which applyPipeline (request.js:124-135, 218-223) stops for a
\* config: the first stage that throws, or "ok" when the config reaches the
\* transport.
Pipeline(s, retry) ==
  IF checkNetwork(s) THEN "Offline"
  ELSE IF checkIsRefreshing(s, retry) THEN "IsRefreshing"
  ELSE "ok"

\* String.prototype.toLowerCase on a method name (request.js:257)
toLowerCase(m) ==
  IF m = "GET" THEN "get" ELSE IF m = "POST" THEN "post" ELSE m

\* request.js:258
isWrite(c) == toLowerCase(c.method) \in {"post", "put", "patch", "delete"}

\* processUrlTemplate (request.js:238-252)
processUrlTemplate(c) ==
  IF ~c.data.def THEN c
  ELSE LET urlParams == c.url \cap c.data.keys
       IN [c EXCEPT !.url = @ \ urlParams,
                    !.data.keys = IF c.removeUrlParams THEN @ \ urlParams ELSE @]

\* The stage without its guard: a descriptor is routed on every pass.
preprocessRequest_NoGuard(c) ==
  LET c1 == processUrlTemplate(c)
  IN IF isWrite(c)
     THEN [c1 EXCEPT !.params = Undefined, !.isPreprocessing = TRUE]
     ELSE [c1 EXCEPT !.params = c1.data, !.data = Undefined, !.isPreprocessing = TRUE]

\* preprocessRequest (request.js:255-271)
preprocessRequest(c) ==
  IF c.isPreprocessing THEN c
  ELSE LET c1 == processUrlTemplate(c)
       IN IF isWrite(c)
          THEN [c1 EXCEPT !.params = Undefined, !.isPreprocessing = TRUE]
          ELSE [c1 EXCEPT !.params = c1.data, !.data = Undefined, !.isPreprocessing = TRUE]

\* setAccessToken (request.js:288-292), for a replay: the header it carries
setAccessToken(s) ==
  IF s.cookies.access # 0 THEN [s EXCEPT !.hdr = s.cookies.access] ELSE s

\* updateAuth (request.js:295-305): t is the credential of the response
\* headers, 0 when the response carries none
updateAuth(s, t) ==
  IF t # 0 THEN [s EXCEPT !.cookies.access = t, !.cookies.refresh = t] ELSE s

\* The store left as it was: the drain would start on the old credential.
StoreRefreshed_Skip(s, t) == s

\* The tokens of the refresh response are stored (request.js:191-192).  Both
\* headers carry one credential value t; the expiry that JWT.getExpiration
\* derives for the cookie (request.js:189) is not part of the state.
StoreRefreshed(s, t) ==
  [s EXCEPT !.cookies.access = t, !.cookies.refresh = t]

\* -------------------------------------------------- burst bookkeeping (hist)
\* The first burst: the requests at the transport when the first
\* Unauthorized failure is delivered.
BurstOpen(s, r) ==
  IF s.hist.phase = "none"
  THEN LET b == {q \in Reqs : s.pc[q] = "inflight"} \cup {r}
       IN [s EXCEPT !.hist = [NoHist EXCEPT !.phase = "open", !.burst = b, !.left = b]]
  ELSE s

\* A member of the burst ends otherwise than by an Unauthorized failure.
BurstSpoil(s, r) ==
  IF r \in s.hist.left THEN [s EXCEPT !.hist = ClosedHist] ELSE s

\* The Unauthorized branch took state s to state t for the request of slot r.
BurstHandled(s, t, r) ==
  IF s.hist.phase # "open" THEN t
  ELSE LET left == s.hist.left \ {r}
       IN [t EXCEPT
             !.hist.left = left,
             !.hist.calls = @ + (IF t.refreshers # s.refreshers THEN 1 ELSE 0),
             !.hist.phase = IF left = {} THEN "complete" ELSE "open"]

\* A refresh cycle ends while the burst is open.
BurstCycleEnd(s) ==
  IF s.hist.phase = "open" THEN [s EXCEPT !.hist.late = TRUE] ELSE s

\* --------------------------------------------- response-error interceptor
\* The Unauthorized branch with the write isRefreshing = true forgotten.
OnUnauthorized_FlagNotSet(s, r) ==
  LET s1 == checkAndResetCounter(s)
      s2 == [s1 EXCEPT !.refreshAttempts = @ + 1]
  IN IF LimitExceeded(s2.refreshAttempts)
     THEN reject(resetAuth([s2 EXCEPT !.refreshAttempts = 0, !.lastResetTime = s2.now,
                                       !.event = "rateLimited"],
                           HttpError(401, FALSE)),
                 r, "Unauthorized")
     ELSE LET s3 == enqueue(s2, r)
          IN IF MayStartRefresh(s3)
             THEN [s3 EXCEPT !.refreshers = @ \cup {r},
                             !.event = "refreshStart"]
             ELSE [s3 EXCEPT !.event = "joined"]

\* request.js:169-204, up to the await of refreshToken()
OnUnauthorized(s, r) ==
  LET s1 == checkAndResetCounter(s)
      s2 == [s1 EXCEPT !.refreshAttempts = @ + 1]
  IN IF LimitExceeded(s2.refreshAttempts)
     THEN reject(resetAuth([s2 EXCEPT !.refreshAttempts = 0, !.lastResetTime = s2.now,
                                       !.event = "rateLimited"],
                           HttpError(401, FALSE)),
                 r, "Unauthorized")
     ELSE LET s3 == enqueue(s2, r)
          IN IF MayStartRefresh(s3)
             THEN [s3 EXCEPT !.isRefreshing = TRUE,
                             !.refreshers = @ \cup {r},
                             !.event = "refreshStart"]
             ELSE [s3 EXCEPT !.event = "joined"]

\* A failed replay whose handle is left pending: the loop moves on without
\* settling the entry.
OnRetryFailed_NotSettled(s, r, e) ==
  [resetAuth(s, e) EXCEPT !.drainPos = @ + 1, !.hdr = 0, !.event = "retryFailed"]

\* request.js:158-161 and the catch of resolveAll it rejects into
\* (request.js:33-40); the loop then goes on to the next entry.
OnRetryFailed(s, r, e) ==
  LET s1 == resetAuth(s, e)
      s2 == IF e.status = 401
            THEN [reject(s1, r, "Unauthorized") EXCEPT !.isLogout = TRUE]
            ELSE reject(s1, r, ResultOf(e))
  IN [s2 EXCEPT !.drainPos = @ + 1, !.hdr = 0, !.event = "retryFailed"]

\* The rejected handler of the response interceptor after parseBlobError
\* (request.js:157-211) for the failure e of the request of slot r.
OnRejected(s, r, e) ==
  IF IsInternalRetry(e) THEN OnRetryFailed(s, r, e)
  ELSE IF e.flag = "IsRefreshing" THEN [enqueue(s, r) EXCEPT !.event = "enqueued"]
  ELSE IF e.status = 401 THEN BurstHandled(s, OnUnauthorized(s, r), r)
  ELSE [reject(handleKnownHttpErrors(BurstSpoil(s, r), e), r, ResultOf(e))
          EXCEPT !.event = "rejected"]

\* ------------------------------------------------------------------ actions
\* A replay is at the transport, or its failure handler reads a Blob body: the
\* drain loop is suspended in its await.
Suspended ==
  \E q \in Reqs : pc[q] = "replay" \/ (pc[q] = "parsing" /\ err[q].retry)

\* The continuation of a handler that owns the drain is running.
Busy == drainer # 0 /\ ~Suspended

\* The application calls the instance with a new request for slot r
\* (src/api/testApi.js); the request pipeline runs (request.js:124-135).
Issue(r) ==
  /\ ~Busy
  /\ issued < MaxIssue
  /\ pc[r] = "idle"
  /\ \A q \in Reqs : q < r => pc[q] # "idle"
  /\ LET s0 == [Cur EXCEPT !.issued = @ + 1]
         stage == Pipeline(s0, FALSE)
     IN Becomes(
          IF stage = "Offline" THEN OnRejected(s0, r, OfflineError(FALSE))
          ELSE IF stage = "IsRefreshing" THEN OnRejected(s0, r, IsRefreshingTokenError(FALSE))
          ELSE [s0 EXCEPT !.pc[r] = "inflight", !.event = "dispatched"])

\* The transport answers the request of slot r with a response whose headers
\* carry the credential t (0: none); the response pipeline runs
\* (request.js:139-142).  For a replay the drain loop resumes (request.js:31-32).
Succeed(r, t) ==
  /\ ~Busy
  /\ pc[r] \in {"inflight", "replay"}
  /\ LET s1 == updateAuth(Cur, t)
     IN Becomes(
          IF pc[r] = "replay"
          THEN [resolve(s1, r) EXCEPT !.drainPos = @ + 1, !.hdr = 0, !.event = "replayed"]
          ELSE [resolve(BurstSpoil(s1, r), r) EXCEPT !.event = "resolved"])

\* The transport answers the request of slot r with a failure (request.js:143-155);
\* with a Blob body the handler is suspended in parseBlobError.
Fail(r, status, blob) ==
  /\ ~Busy
  /\ pc[r] \in {"inflight", "replay"}
  /\ LET e == HttpError(status, pc[r] = "replay")
         s0 == IF status = 401 /\ ~e.retry THEN BurstOpen(Cur, r) ELSE Cur
     IN Becomes(
          IF blob
          THEN [(IF status = 401 \/ e.retry THEN s0 ELSE BurstSpoil(s0, r)) EXCEPT
                   !.pc[r] = "parsing", !.err[r] = e, !.event = "parsing"]
          ELSE OnRejected(s0, r, e))

\* parseBlobError has read the Blob (request.js:348-387); the handler goes on.
ParseDone(r) ==
  /\ ~Busy
  /\ pc[r] = "parsing"
  /\ Becomes(OnRejected([Cur EXCEPT !.err[r] = NoErr], r, err[r]))

\* The refresh call of handler r is answered with new tokens t
\* (request.js:185-195): they are stored and resolveAll starts.
RefreshSucceed(r, t) ==
  /\ ~Busy
  /\ drainer = 0
  /\ r \in refreshers
  /\ Becomes([StoreRefreshed(Cur, t) EXCEPT
                !.issuedTok = t,
                !.refreshers = @ \ {r},
                !.drainer = r, !.drainPos = 1,
                !.event = "refreshOk"])

\* The refresh call of handler r fails (request.js:196-201).
RefreshFail(r) ==
  /\ ~Busy
  /\ r \in refreshers
  /\ Becomes([rejectAll(resetAuth(BurstCycleEnd(Cur), RefreshError), "RefreshFailed") EXCEPT
                !.isRefreshing = FALSE,
                !.refreshers = @ \ {r},
                !.event = "refreshFailed"])

\* One iteration of the loop of resolveAll (request.js:24-41).
DrainStep ==
  /\ Busy
  /\ drainPos <= Len(queue)
  /\ LET task == queue[drainPos]
         stage == Pipeline(Cur, TRUE)
         s0 == [Cur EXCEPT !.replayLog = Append(@, task)]
     IN Becomes(
          IF isLogout
          THEN [reject(Cur, task, "Unauthorized") EXCEPT !.drainPos = @ + 1,
                                                         !.event = "skipped"]
          ELSE IF stage = "Offline" THEN OnRejected(s0, task, OfflineError(TRUE))
          ELSE IF stage = "IsRefreshing" THEN OnRejected(s0, task, IsRefreshingTokenError(TRUE))
          ELSE [setAccessToken(s0) EXCEPT !.pc[task] = "replay",
                                          !.event = "replayDispatched"])

\* The loop given up one entry early: clear() runs with the last entry pending.
DrainEnd_Early ==
  /\ Busy
  /\ drainPos >= Len(queue)
  /\ Becomes([clear(BurstCycleEnd(Cur)) EXCEPT
                !.isLogout = FALSE,
                !.isRefreshing = FALSE,
                !.drainer = 0, !.drainPos = 0,
                !.replayLog = <<>>, !.issuedTok = 0,
                !.event = "drained"])

\* The loop is over (request.js:42-43); the owner's finally runs (request.js:199-201).
DrainEnd ==
  /\ Busy
  /\ drainPos > Len(queue)
  /\ Becomes([clear(BurstCycleEnd(Cur)) EXCEPT
                !.isLogout = FALSE,
                !.isRefreshing = FALSE,
                !.drainer = 0, !.drainPos = 0,
                !.replayLog = <<>>, !.issuedTok = 0,
                !.event = "drained"])

\* navigator.onLine changes.
Network ==
  /\ ~Busy
  /\ Becomes([Cur EXCEPT !.online = ~@, !.event = "network"])

\* Time passes.
Tick ==
  /\ ~Busy
  /\ now + TickStep <= MaxTime
  /\ Becomes([Cur EXCEPT !.now = @ + TickStep, !.event = "tick"])

Next ==
  \/ \E r \in Reqs : Issue(r)
  \/ \E r \in Reqs, t \in Tokens \cup {0} : Succeed(r, t)
  \/ \E r \in Reqs, status \in Statuses, blob \in BOOLEAN : Fail(r, status, blob)
  \/ \E r \in Reqs : ParseDone(r)
  \/ \E r \in Reqs, t \in Tokens : RefreshSucceed(r, t)
  \/ \E r \in Reqs : RefreshFail(r)
  \/ DrainStep
  \/ DrainEnd
  \/ Network
  \/ Tick

Spec == Init /\ [][Next]_vars

\* The transport eventually answers the refresh call it was handed, and the
\* event loop eventually runs the continuations of resolveAll.  (Nothing an
\* entry of the queue waits for depends on the answer to any other call.)
Fairness ==
  /\ WF_vars(\E r \in Reqs : RefreshFail(r) \/ \E t \in Tokens : RefreshSucceed(r, t))
  /\ WF_vars(DrainStep)
  /\ WF_vars(DrainEnd)

\* The state after construction, with the bookkeeping of the first burst
\* switched off.
FairInit ==
  /\ config = NoConfig
  /\ config0 = NoConfig
  /\ runs = 0
  /\ isRefreshing = FALSE
  /\ isLogout = FALSE
  /\ refreshAttempts = 0
  /\ lastResetTime = 0
  /\ queue = <<>>
  /\ cookies = [access |-> 1, refresh |-> 1, login |-> TRUE]
  /\ online = TRUE
  /\ now = 0
  /\ pc = [r \in Reqs |-> "idle"]
  /\ err = [r \in Reqs |-> NoErr]
  /\ hdr = 0
  /\ settled = NoSettle
  /\ refreshers = {}
  /\ drainer = 0
  /\ drainPos = 0
  /\ issued = 0
  /\ replayLog = <<>>
  /\ issuedTok = 0
  /\ event = "init"
  /\ hist = ClosedHist
  /\ shown = 0

FairSpec == FairInit /\ [][Next]_vars /\ Fairness

\* ------------------------------------------- the routing stage on its own
\* A call site has built a descriptor; the coordinator is as constructed.
PreInit ==
  /\ config \in Configs
  /\ config0 = config
  /\ runs = 0
  /\ isRefreshing = FALSE
  /\ isLogout = FALSE
  /\ refreshAttempts = 0
  /\ lastResetTime = 0
  /\ queue = <<>>
  /\ cookies = [access |-> 1, refresh |-> 1, login |-> TRUE]
  /\ online = TRUE
  /\ now = 0
  /\ pc = [r \in Reqs |-> "idle"]
  /\ err = [r \in Reqs |-> NoErr]
  /\ hdr = 0
  /\ settled = NoSettle
  /\ refreshers = {}
  /\ drainer = 0
  /\ drainPos = 0
  /\ issued = 0
  /\ replayLog = <<>>
  /\ issuedTok = 0
  /\ event = "init"
  /\ hist = ClosedHist
  /\ shown = 0

\* The descriptor passes through the stage in the request pipeline
\* (request.js:126-133).
Route ==
  /\ runs < MaxRuns
  /\ config' = preprocessRequest(config)
  /\ runs' = runs + 1
  /\ UNCHANGED <<config0, coordVars>>

\* resolveAll copies the queued descriptor with _internalRetry set and passes
\* the copy to the instance (request.js:30-31), whose pipeline runs the stage.
ReplayRoute ==
  /\ runs < MaxRuns
  /\ config' = preprocessRequest([config EXCEPT !.internalRetry = TRUE])
  /\ runs' = runs + 1
  /\ UNCHANGED <<config0, coordVars>>

PreNext == Route \/ ReplayRoute

PreSpec == PreInit /\ [][PreNext]_vars

\* ------------------------------------------------------------------- claims
\* The drain loop is about to replay the entry at drainPos.
AboutToReplay == drainer # 0 /\ drainPos <= Len(queue) /\ ~Suspended /\ ~isLogout

\* The steps in which the Unauthorized branch of the handler ran.
TriggerEvents == {"rateLimited", "refreshStart", "joined"}

\* The handlers that own a refresh cycle: awaiting the refresh call or draining.
Owners == refreshers \cup ({drainer} \ {0})

\* C1: transparent recovery.  When the handler that started the refresh has had
\* its refresh call answered with new tokens and the device is online, the
\* drain resolves that handler's own caller with the replay's response, and the
\* credentials are still stored.
C1_TransparentRecovery ==
  \A r \in Reqs :
    (drainer = r /\ r \in settled.who /\ online)
      => (settled.how = "resolved" /\ cookies.access # 0 /\ cookies.refresh # 0)

\* C2 as stated: once every request of a burst of concurrent requests has
\* failed with 401 and been handled, exactly one refresh call has been issued.
C2_ExactlyOneRefreshPerBurst ==
  hist.phase = "complete" => hist.calls = 1

\* C2 as amended: exactly one refresh call is issued for a burst whose failures
\* are all handled before a refresh cycle has ended.
C2_ExactlyOneRefreshWithinCycle ==
  (hist.phase = "complete" /\ ~hist.late) => hist.calls = 1

\* A burst of two requests, both handled within one refresh cycle.
C2_Witness ==
  hist.phase = "complete" /\ ~hist.late /\ Cardinality(hist.burst) >= 2

\* C3: single flight.  At most one refresh call is in flight and at most one
\* handler owns the refresh cycle, and RefreshState is Refreshing exactly while
\* a handler owns it.
C3_SingleFlight ==
  /\ Cardinality(refreshers) <= 1
  /\ Cardinality(Owners) <= 1
  /\ isRefreshing <=> Owners # {}

\* A second failure was queued behind the refresh call in flight.
C3_Witness ==
  Cardinality(refreshers) = 1 /\ Len(queue) >= 2

\* C4: a request that reaches the transport outside a replay entered the
\* pipeline while RefreshState was Idle, and a replay never fails with
\* RefreshInProgress.
C4_RefreshCheckExemptsReplay ==
  /\ event = "dispatched" => ~isRefreshing
  /\ event = "retryFailed" => settled.how # "IsRefreshing"

\* C5: when the drain loop is over, the replays it dispatched are the entries
\* of the queue in enqueue order.
C5_ReplayInEnqueueOrder ==
  (drainer # 0 /\ drainPos > Len(queue)) => replayLog = queue

\* C6: a replay that fails is not put back into the queue and starts no
\* refresh; the failure rejects the handle of the caller of the entry.
C6_RetryNeverRequeued ==
  [][(AboutToReplay /\ Pipeline(St, TRUE) # "ok")
       => /\ queue' = queue
          /\ refreshers' = refreshers
          /\ isRefreshing' = isRefreshing
          /\ settled' = [who |-> {queue[drainPos]}, how |-> Pipeline(St, TRUE)]
          /\ pc'[queue[drainPos]] = "idle"]_vars

\* A replay failed and its caller was rejected.
C6_Witness ==
  event = "retryFailed" /\ settled.how \in {"IsRefreshing", "Offline"}

\* C7: after a refresh cycle has completed, by drain, by refresh failure or by
\* rate-limited forced logout, RefreshState is Idle and the queue is empty.
C7_IdleAndEmptyAfterCycle ==
  event \in {"drained", "refreshFailed", "rateLimited"}
    => (~isRefreshing /\ queue = <<>>)

\* C8: with ceiling 5 and window 60000 ms, the 6th trigger within a window
\* forces logout and issues no refresh call, an earlier one does not, and a
\* trigger after the window has elapsed restarts the count at 1 and is handled
\* as a normal attempt.
C8_RateLimiter ==
  [][event' \in TriggerEvents =>
       IF now - lastResetTime >= 60000
       THEN /\ refreshAttempts' = 1
            /\ lastResetTime' = now
            /\ event' # "rateLimited"
            /\ ~isRefreshing => (event' = "refreshStart" /\ refreshers' # refreshers)
       ELSE IF refreshAttempts = 5
       THEN /\ event' = "rateLimited"
            /\ refreshers' = refreshers
            /\ cookies' = NoCookies
            /\ settled'.how = "Unauthorized"
            /\ refreshAttempts' = 0
       ELSE /\ event' # "rateLimited"
            /\ refreshAttempts' = refreshAttempts + 1]_vars

\* The 6th trigger of a window forced a logout.
C8_Witness ==
  event = "rateLimited" /\ cookies = NoCookies

\* C9: whenever the drain is about to replay an entry, the credential store
\* holds the tokens of the refresh response, and a replay at the transport
\* carries them.
C9_StoredBeforeReplay ==
  /\ AboutToReplay =>
       (issuedTok # 0 /\ cookies.access = issuedTok /\ cookies.refresh = issuedTok)
  /\ hdr # 0 => hdr = issuedTok

\* The drain replays its first entry after a refresh that changed the tokens.
C9_Witness ==
  AboutToReplay /\ drainPos = 1 /\ event = "refreshOk" /\ cookies.access = 2

\* C10: while RefreshState is Refreshing, a further failure classified
\* Unauthorized or RefreshInProgress is enqueued, nothing is settled, and no
\* refresh call is issued.
C10_QueuedWhileRefreshing ==
  [][(isRefreshing /\ event' \in TriggerEvents \cup {"enqueued"})
       => /\ event' \in {"joined", "enqueued"}
          /\ Len(queue') = Len(queue) + 1
          /\ settled'.who = {}
          /\ refreshers' = refreshers]_vars

\* C11: the step in which the rate limit is exceeded issues no refresh call,
\* clears the credentials, rejects every entry then in the queue with an
\* Unauthorized failure, and leaves RefreshState Idle.
C11_RateLimitRejectsQueue ==
  [][event' = "rateLimited"
       => /\ refreshers' = refreshers
          /\ cookies' = NoCookies
          /\ Entries(St) \subseteq settled'.who
          /\ settled'.how = "Unauthorized"
          /\ queue' = <<>>
          /\ ~isRefreshing']_vars

\* C12: the step in which the refresh call fails clears the credentials, shows
\* a message on the notification sink, rejects the handle of every queued
\* entry, empties the queue and sets RefreshState to Idle.
C12_RefreshFailure ==
  [][(refreshers # {} /\ refreshers' = {} /\ drainer' = 0)
       => /\ event' = "refreshFailed"
          /\ cookies' = NoCookies
          /\ shown' = 1
          /\ settled' = [who |-> Entries(St), how |-> "RefreshFailed"]
          /\ \A q \in Entries(St) : pc[q] = "queued" /\ pc'[q] = "idle"
          /\ queue' = <<>>
          /\ ~isRefreshing']_vars

\* A refresh call failed with two entries in the queue.
C12_Witness ==
  event = "refreshFailed" /\ Cardinality(settled.who) = 2 /\ shown = 1

\* C13: every iteration of the drain loop replays its entry (passes it to the
\* instance) and settles at most that entry's handle, whatever the outcome of
\* the replays before it.
C13_FailureDoesNotAbortDrain ==
  [][(Busy /\ drainPos <= Len(queue))
       => /\ replayLog' = Append(replayLog, queue[drainPos])
          /\ settled'.who \subseteq {queue[drainPos]}]_vars

\* C14: under FairSpec every entry placed in the queue eventually has its
\* handle resolved or rejected; no entry stays pending forever.
C14_QueuedEventuallySettled ==
  \A r \in Reqs : (pc[r] = "queued") ~> (r \in settled.who)

\* The drain has settled the last of two queued entries.
C14_Witness ==
  /\ drainer # 0 /\ drainPos > Len(queue) /\ Len(queue) = 2
  /\ \A q \in Entries(St) : pc[q] = "idle"

\* C15: the queue is non-empty only while RefreshState is Refreshing and a
\* handler owns the refresh cycle (the push that precedes the first refresh of
\* a burst is in the same step as the write of Refreshing); it is empty in
\* every Idle state.
C15_QueueOnlyWhileRefreshing ==
  queue # <<>> => (isRefreshing /\ Owners # {})

\* The first failure of a burst was pushed in the step that set Refreshing.
C15_Witness ==
  event = "refreshStart" /\ Len(queue) = 1 /\ isRefreshing

\* The replays of the drain that are at the transport or whose failure is
\* being decoded.
ReplaysInFlight == {q \in Reqs : pc[q] = "replay" \/ (pc[q] = "parsing" /\ err[q].retry)}

C17_ForcedLogoutOneMessage ==
  [][event' \in {"rateLimited", "refreshFailed"}
       => /\ cookies' = NoCookies
          /\ shown' = 1]_vars

\* A forced logout by the rate limit while a refresh call is in flight.
C17_Witness ==
  event = "rateLimited" /\ shown = 1 /\ refreshers # {}

\* C18: when the request pipeline raises Offline, for a new request or for a
\* replay, the failure rejects the caller of that request; nothing is pushed
\* on the queue, no refresh starts, and RefreshState and the rate window are
\* unchanged.
C18_OfflineNotQueued ==
  [][(~online /\ (issued' = issued + 1 \/ (AboutToReplay /\ drainPos' = drainPos + 1)))
       => /\ settled'.how = "Offline"
          /\ Cardinality(settled'.who) = 1
          /\ \A q \in settled'.who : pc'[q] = "idle"
          /\ queue' = queue
          /\ isRefreshing' = isRefreshing
          /\ refreshers' = refreshers
          /\ refreshAttempts' = refreshAttempts
          /\ lastResetTime' = lastResetTime]_vars

\* A new request was rejected as Offline while a refresh call was in flight.
C18_Witness ==
  event = "rejected" /\ settled.how = "Offline" /\ refreshers # {} /\ queue # <<>>

\* C19: a failure that is neither Offline, Unauthorized nor RefreshInProgress,
\* with a status of the known-status table or not, is shown on the
\* notification sink exactly once in the step that rejects it to its caller.
C19_ShownOnceThenRejected ==
  [][settled'.how \in {"Status500", "Status404"}
       => /\ shown' = 1
          /\ Cardinality(settled'.who) = 1]_vars

\* The body of the descriptor the call site built, after URL templating.
Body0 == processUrlTemplate(config0).data

\* C20: once a descriptor has passed through parameter routing, however many
\* times and whether as a replay copy or not, it is marked preprocessed and
\* holds the result of one routing of the descriptor the call site built: for
\* a read method the body has become the query parameters and the body is
\* cleared, for a write method the body is kept and the query parameters are
\* empty.
C20_RoutedExactlyOnce ==
  runs >= 1 =>
    /\ config.isPreprocessing
    /\ IF toLowerCase(config0.method) \in {"post", "put", "patch", "delete"}
       THEN config.data = Body0 /\ config.params = Undefined
       ELSE config.params = Body0 /\ config.data = Undefined

\* A read descriptor with body {a} was routed and then replayed.
C20_Witness ==
  /\ runs = 2 /\ config.internalRetry /\ config0.method = "get"
  /\ config0.data = Object({"a"}) /\ config.params = Object({"a"})

\* C21: the rate-window counter counts refresh attempts.  An Unauthorized
\* failure handled while a refresh is already in flight is only enqueued: it
\* leaves the counter as it is and cannot force a logout.
C21_CounterCountsAttempts ==
  [][(isRefreshing /\ event' \in TriggerEvents)
       => /\ refreshAttempts' = refreshAttempts
          /\ event' = "joined"]_vars

\* C22: the stored credentials are cleared only by a forced logout, that is
\* by the rate limit or by the failure of the refresh call; a failed replay
\* leaves the access token, the refresh token and the login flag in place.
C22_ClearedOnlyByForcedLogout ==
  [][(cookies # NoCookies /\ cookies' = NoCookies)
       => event' \in {"rateLimited", "refreshFailed"}]_vars

\* C23: isLogout is false whenever a drain starts, whatever ended the cycles
\* before it.
C23_LogoutFlagDoesNotLeak ==
  event = "refreshOk" => ~isLogout

\* C24: when the queue is cleared, at the end of resolveAll or in rejectAll,
\* the handle of every entry that was in it has been settled, in an earlier
\* step of the drain or in the clearing step itself; an entry is in the queue
\* once, and its handle is settled only while it is pending, hence once.
C24_NoEntryLeavesUnsettled ==
  [][/\ Cardinality({queue[i] : i \in 1..Len(queue)}) = Len(queue)
     /\ \A i \in 1..Len(queue) :
          /\ (queue' = <<>>) =>
               /\ pc'[queue[i]] = "idle"
               /\ (pc[queue[i]] # "idle") => (queue[i] \in settled'.who)
          /\ (queue[i] \in settled'.who) => (pc[queue[i]] # "idle")]_vars

\* The drain loop has rejected the second of two entries without a replay and
\* the queue is about to be cleared.
C24_Witness ==
  /\ drainer # 0 /\ drainPos = Len(queue) + 1 /\ Len(queue) = 2
  /\ event = "skipped"

====
